---------------------------- MODULE Spec2Model ----------------------------
(***************************************************************************)
(* A model of dwc_quick_check.py: the module-level run that links the     *)
(* event, occurrence and emof tables (two pandas merges validated as      *)
(* one_to_many) and then calls the validators on the merged table, and    *)
(* the validators themselves (coordinates, depth, WoRMS taxonomy lookup). *)
(*                                                                         *)
(* Four specifications share the variables:                                *)
(*   Spec       the module-level run (lines 53-78 and 297-301)             *)
(*   CoordSpec  validate_coordinates on one table                          *)
(*   DepthSpec  depth_consistency_checks on one table                      *)
(*   TaxonSpec  validate_scientific_names against a name service           *)
(***************************************************************************)
EXTENDS Integers, Sequences, FiniteSets

VARIABLES
    pc,                   \* position of the running script / function
    printed,              \* what print() has written so far, in order
    error,                \* the exception that ended the run, or "none"
    df_event,             \* the three loaded tables
    df_occurrence,
    df_emof,
    df_event_occur,       \* module-level names bound by lines 73 and 76
    df_event_occur_emof,
    looked,               \* column names the validators found in the merged table
    df,                   \* the table handed to a validator (CoordSpec, DepthSpec)
    taxon                 \* state of validate_scientific_names (TaxonSpec)

vars == <<pc, printed, error, df_event, df_occurrence, df_emof,
          df_event_occur, df_event_occur_emof, looked, df, taxon>>

runVars == <<df_event, df_occurrence, df_emof, df_event_occur,
             df_event_occur_emof, looked>>

-----------------------------------------------------------------------------
(* Bounds of the model.                                                    *)

MaxRows == 2

EventIDs == {"e1", "e2"}
OccurrenceIDs == {"o1", "o2"}

SeqsUpTo(S, n) == UNION {[1..k -> S] : k \in 0..n}

-----------------------------------------------------------------------------
(* Tables.  A column label is a name with the suffixes pandas appended to  *)
(* it; a cell remembers the table and row it was read from (t, r) and, for *)
(* a key column, the key (v).  A data frame value is a table, None, or a   *)
(* name that was never bound.                                              *)

Col(n) == [name |-> n, sfx |-> <<>>]

None == [kind |-> "None", cols |-> {}, rows |-> <<>>]
Unbound == [kind |-> "Unbound", cols |-> {}, rows |-> <<>>]
Table(cols, rows) == [kind |-> "table", cols |-> cols, rows |-> rows]
IsTable(d) == d.kind = "table"

Cell(t, r, v) == [t |-> t, r |-> r, v |-> v]

Column(d, c) == [i \in 1..Len(d.rows) |-> d.rows[i][c].v]

Values(s) == {s[i] : i \in 1..Len(s)}

\* pd.read_csv of the three files: every table carries its key columns.
EventColumns == {Col("eventID"), Col("eventDate"), Col("decimalLatitude"),
                 Col("decimalLongitude")}

OccurrenceColumnSets ==
    {{Col("eventID"), Col("occurrenceID")} \cup shared \cup name :
        shared \in {{}, {Col("eventDate"), Col("decimalLatitude"),
                         Col("decimalLongitude")}},
        name \in {{}, {Col("scientificName")}}}

EmofColumnSets ==
    {{Col("occurrenceID"), Col("measurementValue")} \cup ev :
        ev \in {{}, {Col("eventID")}}}

EventTable(ids) ==
    Table(EventColumns,
          [i \in 1..Len(ids) |->
              [c \in EventColumns |->
                  Cell("event", i, IF c = Col("eventID") THEN ids[i] ELSE "")]])

OccurrenceTable(cols, keys) ==
    Table(cols,
          [i \in 1..Len(keys) |->
              [c \in cols |->
                  Cell("occurrence", i,
                       IF c = Col("eventID") THEN keys[i][1]
                       ELSE IF c = Col("occurrenceID") THEN keys[i][2]
                       ELSE "")]])

EmofTable(cols, ids) ==
    Table(cols,
          [i \in 1..Len(ids) |->
              [c \in cols |->
                  Cell("emof", i, IF c = Col("occurrenceID") THEN ids[i] ELSE "")]])

-----------------------------------------------------------------------------
(* DataFrame.merge(other, on=on, validate="one_to_many"): an inner join    *)
(* (how defaults to "inner") with the default suffixes ("_x", "_y").       *)

\* validate="one_to_many": the merge keys must be unique in the left table.
LeftKeysUnique(L, on) ==
    \A i, j \in 1..Len(L.rows) :
        L.rows[i][on].v = L.rows[j][on].v => i = j

Overlap(L, R, on) == (L.cols \cap R.cols) \ {on}

Suffixed(c, s) == [name |-> c.name, sfx |-> Append(c.sfx, s)]

LeftName(L, R, on, c) == IF c \in Overlap(L, R, on) THEN Suffixed(c, "_x") ELSE c
RightName(L, R, on, c) == IF c \in Overlap(L, R, on) THEN Suffixed(c, "_y") ELSE c

MergedColumns(L, R, on) ==
    {LeftName(L, R, on, c) : c \in L.cols}
        \cup {RightName(L, R, on, c) : c \in R.cols \ {on}}

MergedRow(L, R, on, lrow, rrow) ==
    [c \in MergedColumns(L, R, on) |->
        IF \E lc \in L.cols : LeftName(L, R, on, lc) = c
        THEN lrow[CHOOSE lc \in L.cols : LeftName(L, R, on, lc) = c]
        ELSE rrow[CHOOSE rc \in R.cols \ {on} : RightName(L, R, on, rc) = c]]

\* A faulty join that keeps only the first matching right row.
MatchesOfFirstOnly(L, R, on, i) ==
    LET js == SelectSeq([j \in 1..Len(R.rows) |-> j],
                        LAMBDA j : R.rows[j][on].v = L.rows[i][on].v)
    IN IF js = <<>> THEN <<>> ELSE <<js[1]>>

\* The right rows whose key equals that of left row i, in the right's order.
MatchesOf(L, R, on, i) ==
    SelectSeq([j \in 1..Len(R.rows) |-> j],
              LAMBDA j : R.rows[j][on].v = L.rows[i][on].v)

RowsFor(L, R, on, i) ==
    LET js == MatchesOf(L, R, on, i)
    IN [k \in 1..Len(js) |-> MergedRow(L, R, on, L.rows[i], R.rows[js[k]])]

RECURSIVE JoinFrom(_, _, _, _)
JoinFrom(L, R, on, i) ==
    IF i > Len(L.rows) THEN <<>>
    ELSE RowsFor(L, R, on, i) \o JoinFrom(L, R, on, i + 1)

MergedRows(L, R, on) == JoinFrom(L, R, on, 1)

Merge(L, R, on) == Table(MergedColumns(L, R, on), MergedRows(L, R, on))

\* test_merge_tables: the merge, or None when pandas raises MergeError.
MergeFails(L, R, on) == ~LeftKeysUnique(L, on)

test_merge_tables(L, R, on) ==
    IF MergeFails(L, R, on) THEN None ELSE Merge(L, R, on)

\* One print() call: the message and the values it lists.
Line(msg, data) == [msg |-> msg, data |-> data]

-----------------------------------------------------------------------------
(* The module-level run.                                                   *)

Idle == [state |-> "unused"]

RunInit ==
    /\ pc = "assert_unique"
    /\ printed = <<>>
    /\ error = "none"
    /\ \E ids \in SeqsUpTo(EventIDs, MaxRows) : df_event = EventTable(ids)
    /\ \E cols \in OccurrenceColumnSets,
          keys \in SeqsUpTo(EventIDs \X OccurrenceIDs, MaxRows) :
            df_occurrence = OccurrenceTable(cols, keys)
    /\ \E cols \in EmofColumnSets, ids \in SeqsUpTo(OccurrenceIDs, MaxRows) :
            df_emof = EmofTable(cols, ids)
    /\ df_event_occur = Unbound
    /\ df_event_occur_emof = Unbound
    /\ looked = {}
    /\ df = Idle
    /\ taxon = Idle

Raise(e) ==
    /\ pc' = "raised"
    /\ error' = e

\* line 58: assert len(set(df_event["eventID"])) == len(df_event)
AssertUniqueEventIDs ==
    /\ pc = "assert_unique"
    /\ IF Cardinality(Values(Column(df_event, Col("eventID")))) = Len(df_event.rows)
       THEN pc' = "assert_match" /\ UNCHANGED error
       ELSE Raise("AssertionError")
    /\ UNCHANGED <<printed, runVars, df, taxon>>

\* line 59: assert sorted(set(event eventID)) == sorted(set(occurrence eventID))
AssertSameEventIDs ==
    /\ pc = "assert_match"
    /\ IF Values(Column(df_event, Col("eventID")))
            = Values(Column(df_occurrence, Col("eventID")))
       THEN pc' = "merge_event_occur" /\ UNCHANGED error
       ELSE Raise("AssertionError")
    /\ UNCHANGED <<printed, runVars, df, taxon>>

\* line 73
MergeEventOccurrence ==
    /\ pc = "merge_event_occur"
    /\ df_event_occur' = test_merge_tables(df_event, df_occurrence, Col("eventID"))
    /\ printed' = IF MergeFails(df_event, df_occurrence, Col("eventID"))
                  THEN Append(printed, Line("Failed Merging DataFrames", {}))
                  ELSE printed
    /\ pc' = "merge_emof"
    /\ UNCHANGED <<error, df_event, df_occurrence, df_emof, df_event_occur_emof,
                   looked, df, taxon>>

\* lines 74-78
MergeEmof ==
    /\ pc = "merge_emof"
    /\ IF df_event_occur # None
       THEN /\ df_event_occur_emof' =
                  test_merge_tables(df_event_occur, df_emof, Col("occurrenceID"))
            /\ printed' = IF MergeFails(df_event_occur, df_emof, Col("occurrenceID"))
                          THEN Append(printed, Line("Failed Merging DataFrames", {}))
                          ELSE printed
       ELSE UNCHANGED <<df_event_occur_emof, printed>>
    /\ pc' = "shapes"
    /\ UNCHANGED <<error, df_event, df_occurrence, df_emof, df_event_occur,
                   looked, df, taxon>>

\* lines 81-83
PrintShapes ==
    /\ pc = "shapes"
    /\ printed' = printed \o
           <<Line("event", {<<Len(df_event.rows), Cardinality(df_event.cols)>>}),
             Line("occurrence",
                   {<<Len(df_occurrence.rows), Cardinality(df_occurrence.cols)>>}),
             Line("emof", {<<Len(df_emof.rows), Cardinality(df_emof.cols)>>})>>
    /\ pc' = "required_columns"
    /\ UNCHANGED <<error, runVars, df, taxon>>

\* lines 123-142
required_emof_terms ==
    {"eventID", "occurrenceID", "measurementValue", "measurementType",
     "measurementUnit"}

required_event_terms ==
    {"eventID", "eventDate", "decimalLatitude", "decimalLongitude",
     "countryCode", "geodeticDatum"}

required_terms == required_event_terms \cup required_emof_terms

\* "col in df.columns": the label must match exactly, suffix included.
HasColumn(d, n) == Col(n) \in d.cols

missing_cols(d) == {n \in required_terms : ~HasColumn(d, n)}

\* line 297: test_required_columns(df_event_occur_emof)
RequiredColumns ==
    /\ pc = "required_columns"
    /\ IF df_event_occur_emof = Unbound
       THEN Raise("NameError") /\ UNCHANGED <<printed, looked>>
       ELSE IF df_event_occur_emof = None
       THEN Raise("AttributeError") /\ UNCHANGED <<printed, looked>>
       ELSE /\ printed' = Append(printed,
                   IF missing_cols(df_event_occur_emof) # {}
                   THEN Line("Missing required DwC columns",
                             missing_cols(df_event_occur_emof))
                   ELSE Line("All core DwC columns are present.", {}))
            /\ looked' = looked \cup
                   {<<"required", n>> : n \in required_terms
                                           \ missing_cols(df_event_occur_emof)}
            /\ pc' = "null_values"
            /\ UNCHANGED error
    /\ UNCHANGED <<df_event, df_occurrence, df_emof, df_event_occur,
                   df_event_occur_emof, df, taxon>>

\* line 298: test_null_values(df_event_occur_emof); the tables of this
\* specification are fully populated, so no column has a missing value.
NullValues ==
    /\ pc = "null_values"
    /\ looked' = looked \cup
           {<<"null", n>> : n \in {m \in required_terms :
                                      HasColumn(df_event_occur_emof, m)}}
    /\ pc' = "coordinates"
    /\ UNCHANGED <<printed, error, df_event, df_occurrence, df_emof,
                   df_event_occur, df_event_occur_emof, df, taxon>>

\* line 299: validate_coordinates(df_event_occur_emof), of which this
\* specification keeps the column lookup (CoordSpec models the value checks).
Coordinates ==
    /\ pc = "coordinates"
    /\ looked' = looked \cup
           {<<"coordinates", n>> : n \in {m \in {"decimalLatitude", "decimalLongitude"} :
                                             HasColumn(df_event_occur_emof, m)}}
    /\ pc' = "depth"
    /\ UNCHANGED <<printed, error, df_event, df_occurrence, df_emof,
                   df_event_occur, df_event_occur_emof, df, taxon>>

\* line 300: depth_consistency_checks(df_event_occur_emof); no table of this
\* specification has a depth column (DepthSpec models the value checks).
Depth ==
    /\ pc = "depth"
    /\ printed' = IF    ~HasColumn(df_event_occur_emof, "minimumDepthInMeters")
                     /\ ~HasColumn(df_event_occur_emof, "maximumDepthInMeters")
                  THEN Append(printed, Line("No depth information found", {}))
                  ELSE printed
    /\ pc' = "taxonomy"
    /\ UNCHANGED <<error, runVars, df, taxon>>

\* line 301: validate_scientific_names(df_event_occur_emof).  A missing
\* scientificName is printed (245-246) and then read anyway (251): KeyError.
\* TaxonSpec models the lookup itself.
Taxonomy ==
    /\ pc = "taxonomy"
    /\ IF ~HasColumn(df_event_occur_emof, "scientificName")
       THEN /\ printed' = Append(printed, Line("Missing scientificName.", {}))
            /\ Raise("KeyError")
       ELSE /\ pc' = "done"
            /\ UNCHANGED <<printed, error>>
    /\ UNCHANGED <<runVars, df, taxon>>

Next ==
    \/ AssertUniqueEventIDs
    \/ AssertSameEventIDs
    \/ MergeEventOccurrence
    \/ MergeEmof
    \/ PrintShapes
    \/ RequiredColumns
    \/ NullValues
    \/ Coordinates
    \/ Depth
    \/ Taxonomy

Init == RunInit

Spec == Init /\ [][Next]_vars

-----------------------------------------------------------------------------
(* Properties of the module-level run.                                     *)

EventKeys == Values(Column(df_event, Col("eventID")))
OccurrenceEventKeys == Values(Column(df_occurrence, Col("eventID")))
OccurrenceKeys == Values(Column(df_occurrence, Col("occurrenceID")))
EmofKeys == Values(Column(df_emof, Col("occurrenceID")))

Finished == pc \in {"done", "raised"}

LinkageOver ==
    pc \notin {"assert_unique", "assert_match", "merge_event_occur", "merge_emof"}

MergeFailurePrinted ==
    \E i \in 1..Len(printed) : printed[i].msg = "Failed Merging DataFrames"

\* A repeated eventID in event, or a repeated occurrenceID among the
\* occurrences that join an event.
DuplicateOneSideKey ==
    \/ ~LeftKeysUnique(df_event, Col("eventID"))
    \/ \E i, j \in 1..Len(df_occurrence.rows) :
          /\ i # j
          /\ df_occurrence.rows[i][Col("occurrenceID")].v
                = df_occurrence.rows[j][Col("occurrenceID")].v
          /\ {df_occurrence.rows[i][Col("eventID")].v,
              df_occurrence.rows[j][Col("eventID")].v} \subseteq EventKeys

\* C1 (as claimed): when the "one" side of a join has a duplicated key, the
\* run ends without a raised error, the linked dataset is None and the
\* failure of the merge has been reported.
C1_DuplicateKeyYieldsNone ==
    (Finished /\ DuplicateOneSideKey)
        => /\ pc # "raised"
           /\ df_event_occur_emof = None
           /\ MergeFailurePrinted

\* C2 (as claimed): a linked dataset, whenever there is one, has exactly as
\* many rows as the emof table.
C2_LinkedRowsEqualEmofRows ==
    IsTable(df_event_occur_emof)
        => Len(df_event_occur_emof.rows) = Len(df_emof.rows)

KeysConsistent ==
    /\ LeftKeysUnique(df_event, Col("eventID"))
    /\ OccurrenceEventKeys \subseteq EventKeys
    /\ LeftKeysUnique(df_occurrence, Col("occurrenceID"))
    /\ EmofKeys \subseteq OccurrenceKeys

EveryEventReferenced == EventKeys \subseteq OccurrenceEventKeys

LinkedAsEmof ==
    /\ IsTable(df_event_occur_emof)
    /\ Len(df_event_occur_emof.rows) = Len(df_emof.rows)
    /\ ~MergeFailurePrinted

LinkageFailed == df_event_occur = None \/ df_event_occur_emof = None

\* C5 (as claimed): when a join of the linkage fails, the run does not end
\* with a raised error, and no check has looked into a merged table.
C5_FailedLinkageStillEndsNormally ==
    LinkageFailed => (pc # "raised" /\ looked = {})

SourceColumns == df_event.cols \cup df_occurrence.cols \cup df_emof.cols

LeftmostSource(c) ==
    IF c \in df_event.cols THEN "event"
    ELSE IF c \in df_occurrence.cols THEN "occurrence"
    ELSE "emof"

\* C8 (as claimed): every column of the source tables is in the linked
\* dataset under its own name, with the values of the leftmost table that
\* has it, and the required-column check reports none of them missing.
C8_ColumnsKeepTheirNames ==
    IsTable(df_event_occur_emof)
        => /\ \A c \in SourceColumns :
                 /\ c \in df_event_occur_emof.cols
                 /\ \A i \in 1..Len(df_event_occur_emof.rows) :
                       df_event_occur_emof.rows[i][c].t = LeftmostSource(c)
           /\ \A i \in 1..Len(printed) :
                 printed[i].msg = "Missing required DwC columns"
                     => printed[i].data \cap {c.name : c \in SourceColumns} = {}

-----------------------------------------------------------------------------
(* Cell values of the tables handed to the validators: a number, NaN (a   *)
(* missing value) or a string, and pd.to_numeric(..., errors="coerce").    *)

Num(n) == [kind |-> "num", val |-> n, text |-> <<>>]
NaN == [kind |-> "nan", val |-> 0, text |-> <<>>]
Str(t) == [kind |-> "str", val |-> 0, text |-> t]

Digits == <<"0", "1", "2", "3", "4", "5", "6", "7", "8", "9">>

IsDigit(ch) == \E d \in 1..10 : Digits[d] = ch

DigitValue(ch) == (CHOOSE d \in 1..10 : Digits[d] = ch) - 1

RECURSIVE DecimalValue(_, _)
DecimalValue(t, acc) ==
    IF t = <<>> THEN acc
    ELSE DecimalValue(Tail(t), 10 * acc + DigitValue(Head(t)))

\* An optional sign followed by at least one digit, and nothing else.
ParsesAsNumber(t) ==
    LET body == IF t # <<>> /\ Head(t) = "-" THEN Tail(t) ELSE t
    IN body # <<>> /\ \A i \in 1..Len(body) : IsDigit(body[i])

ParsedNumber(t) ==
    IF Head(t) = "-" THEN 0 - DecimalValue(Tail(t), 0) ELSE DecimalValue(t, 0)

\* pd.to_numeric(value, errors="coerce"): what does not parse becomes NaN.
to_numeric(c) ==
    IF c.kind = "num" THEN [nan |-> FALSE, val |-> c.val]
    ELSE IF c.kind = "str" /\ ParsesAsNumber(c.text)
         THEN [nan |-> FALSE, val |-> ParsedNumber(c.text)]
    ELSE [nan |-> TRUE, val |-> 0]

\* A column as pd.read_csv leaves it: numbers and NaN (a numeric dtype), or,
\* when some value does not parse, strings and NaN (dtype object).
ColumnsOf(numbers, strings, n) ==
    [1..n -> {Num(v) : v \in numbers} \cup {NaN}]
        \cup {s \in [1..n -> {Str(t) : t \in strings} \cup {NaN}] :
                 \E i \in 1..n : s[i].kind = "str" /\ ~ParsesAsNumber(s[i].text)}

\* The labels (0-based RangeIndex) of the rows at positions ps of a table.
IndexOf(ps) == {i - 1 : i \in ps}

-----------------------------------------------------------------------------
(* validate_coordinates (lines 167-193).                                   *)

MaxCoordRows == 2

LatitudeValues == {-91, -90, 0, 90, 91}
LongitudeValues == {-181, -180, 0, 180, 181}
CoordinateStrings == {<<"a", "b", "c">>, <<"4", "5">>}

CoordInit ==
    /\ pc = "latitude"
    /\ printed = <<>>
    /\ error = "none"
    /\ \E n \in 0..MaxCoordRows,
          cols \in SUBSET {"decimalLatitude", "decimalLongitude"} :
        \E lat \in ColumnsOf(LatitudeValues, CoordinateStrings, n),
           lon \in ColumnsOf(LongitudeValues, CoordinateStrings, n) :
            df = [cols |-> cols,
                  data |-> [c \in cols |->
                               IF c = "decimalLatitude" THEN lat ELSE lon]]
    /\ df_event = None /\ df_occurrence = None /\ df_emof = None
    /\ df_event_occur = None /\ df_event_occur_emof = None
    /\ looked = {}
    /\ taxon = Idle

\* df[col] < bound, df[col] > bound: comparing a str with an int raises.
ComparisonRaises(col) == \E i \in 1..Len(col) : col[i].kind = "str"

\* pd.to_numeric(df[col], errors="coerce").isna() | (df[col] < lo) | (df[col] > hi)
OutOfRange(c, lo, hi) ==
    \/ to_numeric(c).nan
    \/ (c.kind = "num" /\ c.val < lo)
    \/ (c.kind = "num" /\ c.val > hi)

invalid_rows(col, lo, hi) ==
    IndexOf({j \in 1..Len(col) : OutOfRange(col[j], lo, hi)})

CheckColumn(name, lo, hi, msg, next) ==
    IF name \notin df.cols
    THEN pc' = next /\ UNCHANGED <<printed, error>>
    ELSE IF ComparisonRaises(df.data[name])
    THEN Raise("TypeError") /\ UNCHANGED printed
    ELSE /\ printed' = IF invalid_rows(df.data[name], lo, hi) # {}
                       THEN Append(printed,
                                   Line(msg, invalid_rows(df.data[name], lo, hi)))
                       ELSE printed
         /\ pc' = next
         /\ UNCHANGED error

\* lines 169-180
CheckLatitude ==
    /\ pc = "latitude"
    /\ CheckColumn("decimalLatitude", -90, 90,
                   "Invalid decimalLatitude values detected.", "longitude")
    /\ UNCHANGED <<runVars, df, taxon>>

\* lines 182-193
CheckLongitude ==
    /\ pc = "longitude"
    /\ CheckColumn("decimalLongitude", -180, 180,
                   "Invalid decimalLongitude values detected.", "coordinates_done")
    /\ UNCHANGED <<runVars, df, taxon>>

CoordNext == CheckLatitude \/ CheckLongitude

CoordSpec == CoordInit /\ [][CoordNext]_vars

\* The rows a printed message lists, and how often it was printed.
Listed(msg) ==
    UNION {printed[i].data : i \in {j \in 1..Len(printed) : printed[j].msg = msg}}

TimesPrinted(msg) ==
    Cardinality({j \in 1..Len(printed) : printed[j].msg = msg})

NonNumeric(c) ==
    c.kind = "nan" \/ (c.kind = "str" /\ ~ParsesAsNumber(c.text))

NumberOf(c) == IF c.kind = "num" THEN c.val ELSE ParsedNumber(c.text)

ClaimedInvalid(c, lo, hi) ==
    NonNumeric(c) \/ NumberOf(c) <= lo \/ NumberOf(c) >= hi

ClaimedFinding(name, lo, hi, msg) ==
    name \in df.cols
        => LET bad == IndexOf({j \in 1..Len(df.data[name]) :
                                  ClaimedInvalid(df.data[name][j], lo, hi)})
           IN /\ Listed(msg) = bad
              /\ TimesPrinted(msg) = IF bad = {} THEN 0 ELSE 1

\* C4 (as claimed): once validate_coordinates is over it has not raised, and
\* for each coordinate column present it has printed one finding listing
\* exactly the rows whose value is non-numeric or outside the open interval
\* (-90, 90), resp. (-180, 180), and none if there is no such row.
C4_OpenIntervalFlagged ==
    pc \in {"coordinates_done", "raised"}
        => /\ pc # "raised"
           /\ ClaimedFinding("decimalLatitude", -90, 90,
                             "Invalid decimalLatitude values detected.")
           /\ ClaimedFinding("decimalLongitude", -180, 180,
                             "Invalid decimalLongitude values detected.")

-----------------------------------------------------------------------------
(* depth_consistency_checks (lines 197-237).                               *)

MaxDepthRows == 2

DepthValues == {0, 7}
DepthStrings == {<<"a">>, <<"3">>, <<"1", "0">>}

DepthInit ==
    /\ pc = "depth_present"
    /\ printed = <<>>
    /\ error = "none"
    /\ \E n \in 0..MaxDepthRows,
          cols \in SUBSET {"minimumDepthInMeters", "maximumDepthInMeters"} :
        \E lo \in ColumnsOf(DepthValues, DepthStrings, n),
           hi \in ColumnsOf(DepthValues, DepthStrings, n) :
            df = [cols |-> cols,
                  data |-> [c \in cols |->
                               IF c = "minimumDepthInMeters" THEN lo ELSE hi]]
    /\ df_event = None /\ df_occurrence = None /\ df_emof = None
    /\ df_event_occur = None /\ df_event_occur_emof = None
    /\ looked = {}
    /\ taxon = Idle

has_min == "minimumDepthInMeters" \in df.cols
has_max == "maximumDepthInMeters" \in df.cols

\* lines 201-208
DepthPresent ==
    /\ pc = "depth_present"
    /\ printed' = IF ~has_min /\ ~has_max
                  THEN Append(printed, Line("No depth information found", {}))
                  ELSE printed
    /\ pc' = "depth_numeric"
    /\ UNCHANGED <<error, runVars, df, taxon>>

non_numeric_min ==
    IndexOf({j \in 1..Len(df.data["minimumDepthInMeters"]) :
                to_numeric(df.data["minimumDepthInMeters"][j]).nan})

\* lines 209-218
DepthNumeric ==
    /\ pc = "depth_numeric"
    /\ printed' = IF has_min /\ non_numeric_min # {}
                  THEN Append(printed,
                              Line("Non-numeric values in minimumDepthInMeters",
                                   non_numeric_min))
                  ELSE printed
    /\ pc' = "depth_logic"
    /\ UNCHANGED <<error, runVars, df, taxon>>

\* A faulty comparison that also flags equal depths.
illogical_or_equal(min_d, max_d) ==
    {i - 1 : i \in {j \in 1..Len(min_d) :
                      /\ ~min_d[j].nan /\ ~max_d[j].nan
                      /\ min_d[j].val >= max_d[j].val}}

\* line 230: (min_d > max_d) & min_d.notna() & max_d.notna(); a comparison
\* with NaN is False.
illogical(min_d, max_d) ==
    {i - 1 : i \in {j \in 1..Len(min_d) :
                      /\ (~min_d[j].nan /\ ~max_d[j].nan
                            /\ min_d[j].val > max_d[j].val)
                      /\ ~min_d[j].nan
                      /\ ~max_d[j].nan}}

Coerced(col) == [i \in 1..Len(col) |-> to_numeric(col[i])]

\* lines 222-237
DepthLogic ==
    /\ pc = "depth_logic"
    /\ printed' =
          IF has_min /\ has_max
          THEN LET rows == illogical(Coerced(df.data["minimumDepthInMeters"]),
                                     Coerced(df.data["maximumDepthInMeters"]))
               IN IF rows # {}
                  THEN Append(printed,
                         Line("minimumDepthInMeters is greater than maximumDepthInMeters",
                              rows))
                  ELSE printed
          ELSE printed
    /\ pc' = "depth_done"
    /\ UNCHANGED <<error, runVars, df, taxon>>

DepthNext == DepthPresent \/ DepthNumeric \/ DepthLogic

DepthSpec == DepthInit /\ [][DepthNext]_vars

\* What each cell of the depth columns denotes, written out.
DepthOf(c) ==
    IF c.kind = "num" THEN c.val
    ELSE IF c.text = <<"3">> THEN 3
    ELSE IF c.text = <<"1", "0">> THEN 10
    ELSE 0

IsDepth(c) == c.kind = "num" \/ (c.kind = "str" /\ c.text \in {<<"3">>, <<"1", "0">>})

MinAboveMax ==
    {i - 1 : i \in {j \in 1..Len(df.data["minimumDepthInMeters"]) :
        LET lo == df.data["minimumDepthInMeters"][j]
            hi == df.data["maximumDepthInMeters"][j]
        IN IsDepth(lo) /\ IsDepth(hi) /\ DepthOf(lo) > DepthOf(hi)}}

\* C9: after depth_consistency_checks, with both depth columns present the
\* critical finding lists exactly the rows whose two values are numeric with
\* minimum > maximum (and is printed once, or not at all when there is no
\* such row); with neither column present the only output is one
\* depth-missing warning.
C9_DepthIllogicalExactlyNumericPairs ==
    pc = "depth_done"
        => /\ (has_min /\ has_max)
                => /\ Listed("minimumDepthInMeters is greater than maximumDepthInMeters")
                        = MinAboveMax
                   /\ TimesPrinted("minimumDepthInMeters is greater than maximumDepthInMeters")
                        = IF MinAboveMax = {} THEN 0 ELSE 1
           /\ (~has_min /\ ~has_max)
                => printed = <<Line("No depth information found", {})>>

C9_Witness ==
    /\ pc = "depth_done"
    /\ has_min /\ has_max
    /\ MinAboveMax = {1}
    /\ df.data["minimumDepthInMeters"][1].kind = "str"
    /\ ~ParsesAsNumber(df.data["minimumDepthInMeters"][1].text)
    /\ df.data["minimumDepthInMeters"][2] = Str(<<"1", "0">>)
    /\ df.data["maximumDepthInMeters"][2] = Num(7)

-----------------------------------------------------------------------------
(* validate_scientific_names (lines 240-294) against a name service.  A    *)
(* name is a positive number (the k-th distinct species name); 0 is NaN.   *)

MaxNames == 52
MaxCalls == 2

chunk_size == 50
report_limit == 10

Min(a, b) == IF a < b THEN a ELSE b

\* The candidate lists the service can return for a name.
Candidate(status, n) == [status |-> status, valid_name |-> <<"valid", n>>,
                         url |-> <<"url", n>>]

Answers(n) ==
    [none |-> <<>>,
     accepted |-> <<Candidate("accepted", n)>>,
     unaccepted_first |-> <<Candidate("unaccepted", n), Candidate("accepted", n + 1)>>,
     accepted_first |-> <<Candidate("accepted", n), Candidate("unaccepted", n + 1)>>]

AnswerKinds == {"none", "accepted", "unaccepted_first", "accepted_first"}

\* A deterministic service: the answer to a name depends on the name alone.
ServiceMatches(service, n) == Answers(n)[service[(n % Len(service)) + 1]]

ErrorStatusCodes == {204}

NamesTo(n) == [k \in 1..n |-> k]

TaxonInit ==
    /\ pc = "names_idle"
    /\ printed = <<>>
    /\ error = "none"
    /\ \E n \in 0..MaxNames, service \in [1..2 -> AnswerKinds] :
          \* every name is on two records, and one record has no name
          taxon = [column |-> NamesTo(n) \o <<0>> \o NamesTo(n),
                   service |-> service,
                   unique_names |-> <<>>,
                   i |-> 0,
                   unmatched_taxa |-> <<>>,
                   requests |-> <<>>,
                   calls |-> 0,
                   mark |-> 0]
    /\ df_event = None /\ df_occurrence = None /\ df_emof = None
    /\ df_event_occur = None /\ df_event_occur_emof = None
    /\ looked = {}
    /\ df = Idle

\* line 251: .dropna().unique().tolist(): first occurrences, in order.
RECURSIVE UniqueFrom(_, _)
UniqueFrom(col, seen) ==
    IF col = <<>> THEN seen
    ELSE IF Head(col) = 0 \/ Head(col) \in Values(seen)
         THEN UniqueFrom(Tail(col), seen)
         ELSE UniqueFrom(Tail(col), Append(seen, Head(col)))

unique(col) == UniqueFrom(col, <<>>)

\* range(0, len(unique_names), chunk_size): is there a chunk starting at i?
LoopAt(names, i) == IF i < Len(names) THEN "names_loop" ELSE "names_report"

\* lines 240-258
CallValidate ==
    /\ pc = "names_idle"
    /\ taxon.calls < MaxCalls
    /\ taxon' = [taxon EXCEPT !.unique_names = unique(taxon.column),
                              !.i = 0,
                              !.unmatched_taxa = <<>>,
                              !.calls = @ + 1,
                              !.mark = Len(printed)]
    /\ pc' = LoopAt(unique(taxon.column), 0)
    /\ UNCHANGED <<printed, error, runVars, df>>

\* line 262: unique_names[i : i + chunk_size]
chunk(names, i) == SubSeq(names, i + 1, Min(i + chunk_size, Len(names)))

Request(outcome) == [call |-> taxon.calls, start |-> taxon.i, outcome |-> outcome]

\* A faulty loop that gives up after a failed batch.
stop_after_failure(names, i) == Len(names)

\* line 261 after lines 282-286: the loop goes on to the next chunk.
next_after_failure(names, i) == i + chunk_size

\* A faulty choice of the candidate: the last one.
worst_match(matches) == matches[Len(matches)]

\* line 277: match = matches[0]
best_match(matches) == matches[1]

NotAcceptedLine(name, match) ==
    Line("Taxon is not accepted",
         {<<name, match.status, match.valid_name, match.url>>})

\* lines 272-281, the prints: one warning per name whose best match is not
\* accepted, in the order of the chunk.
RECURSIVE Warnings(_, _)
Warnings(names, service) ==
    IF names = <<>> THEN <<>>
    ELSE LET matches == ServiceMatches(service, Head(names))
             rest == Warnings(Tail(names), service)
         IN IF matches # <<>> /\ best_match(matches).status # "accepted"
            THEN <<NotAcceptedLine(Head(names), best_match(matches))>> \o rest
            ELSE rest

\* lines 272-274: the names whose list of matches is empty.
Unmatched(names, service) ==
    SelectSeq(names, LAMBDA n : ServiceMatches(service, n) = <<>>)

\* lines 266-281: the service answers with status 200.
BatchAnswered ==
    /\ pc = "names_loop"
    /\ LET c == chunk(taxon.unique_names, taxon.i)
       IN /\ taxon' = [taxon EXCEPT
                 !.requests = Append(@, Request("answered")),
                 !.unmatched_taxa = @ \o Unmatched(c, taxon.service),
                 !.i = @ + chunk_size]
          /\ printed' = printed \o Warnings(c, taxon.service)
    /\ pc' = LoopAt(taxon.unique_names, taxon.i + chunk_size)
    /\ UNCHANGED <<error, runVars, df>>

\* lines 266-268, 282-283: the service answers with another status.
BatchRefused ==
    /\ pc = "names_loop"
    /\ \E code \in ErrorStatusCodes :
          printed' = Append(printed, Line("WoRMS API Error", {code}))
    /\ taxon' = [taxon EXCEPT
           !.requests = Append(@, Request("refused")),
           !.i = next_after_failure(taxon.unique_names, @)]
    /\ pc' = LoopAt(taxon.unique_names,
                    next_after_failure(taxon.unique_names, taxon.i))
    /\ UNCHANGED <<error, runVars, df>>

\* lines 266, 285-286: requests.get raises.
BatchUnreachable ==
    /\ pc = "names_loop"
    /\ printed' = Append(printed, Line("Error connecting to WoRMS", {}))
    /\ taxon' = [taxon EXCEPT
           !.requests = Append(@, Request("unreachable")),
           !.i = next_after_failure(taxon.unique_names, @)]
    /\ pc' = LoopAt(taxon.unique_names,
                    next_after_failure(taxon.unique_names, taxon.i))
    /\ UNCHANGED <<error, runVars, df>>

\* line 293: unmatched_taxa[:10]
reported(unmatched) == SubSeq(unmatched, 1, Min(report_limit, Len(unmatched)))

\* lines 291-294
ReportUnmatched ==
    /\ pc = "names_report"
    /\ printed' = IF taxon.unmatched_taxa # <<>>
                  THEN Append(printed, Line("Taxa not found in WoRMS",
                                            reported(taxon.unmatched_taxa)))
                  ELSE printed
    /\ pc' = "names_idle"
    /\ UNCHANGED <<error, runVars, df, taxon>>

TaxonNext ==
    \/ CallValidate
    \/ BatchAnswered
    \/ BatchRefused
    \/ BatchUnreachable
    \/ ReportUnmatched

TaxonSpec == TaxonInit /\ [][TaxonNext]_vars

-----------------------------------------------------------------------------
(* Properties of validate_scientific_names.                                *)

\* The call that is running or has just returned: its requests, its output.
CurrentRequests ==
    SelectSeq(taxon.requests, LAMBDA r : r.call = taxon.calls)

CallLines == SubSeq(printed, taxon.mark + 1, Len(printed))

CallOver == taxon.calls >= 1 /\ pc \in {"names_report", "names_idle"}

Returned == taxon.calls >= 1 /\ pc = "names_idle"

\* Where the batches of the name list start.
Starts == {i \in 0..(Len(taxon.unique_names) - 1) : i % chunk_size = 0}

RequestsFor(st) == SelectSeq(CurrentRequests, LAMBDA r : r.start = st)

NamesOfBatch(st) ==
    {taxon.unique_names[p] :
        p \in {q \in 1..Len(taxon.unique_names) : st < q /\ q <= st + chunk_size}}

FirstCandidateNotAccepted(n) ==
    /\ ServiceMatches(taxon.service, n) # <<>>
    /\ ServiceMatches(taxon.service, n)[1].status # "accepted"

WarnedNames ==
    {w[1] : w \in UNION {CallLines[k].data :
                k \in {j \in 1..Len(CallLines) :
                         CallLines[j].msg = "Taxon is not accepted"}}}

C7_SecondLookupSendsNothing ==
    (/\ Returned
     /\ taxon.calls = 2
     /\ \A k \in 1..Len(taxon.requests) :
           taxon.requests[k].call = 1 => taxon.requests[k].outcome = "answered")
        => CurrentRequests = <<>>

\* The names of the batches the service answered, in the order submitted.
RECURSIVE AnsweredFrom(_)
AnsweredFrom(rs) ==
    IF rs = <<>> THEN <<>>
    ELSE (IF Head(rs).outcome = "answered"
          THEN SubSeq(taxon.unique_names, Head(rs).start + 1,
                      Min(Head(rs).start + chunk_size, Len(taxon.unique_names)))
          ELSE <<>>) \o AnsweredFrom(Tail(rs))

AnsweredNames == AnsweredFrom(CurrentRequests)

NotFoundNames ==
    SelectSeq(AnsweredNames, LAMBDA n : ServiceMatches(taxon.service, n) = <<>>)

NotAcceptedNames == SelectSeq(AnsweredNames, FirstCandidateNotAccepted)

NotFoundLines == SelectSeq(CallLines, LAMBDA l : l.msg = "Taxa not found in WoRMS")

NotAcceptedLines == SelectSeq(CallLines, LAMBDA l : l.msg = "Taxon is not accepted")

\* One warning per answered name whose first candidate is not accepted, with
\* that candidate's status, valid name and url, and none for any other name.
NotAcceptedWarned ==
    LET names == NotAcceptedNames
    IN NotAcceptedLines =
          [k \in 1..Len(names) |->
              LET first == ServiceMatches(taxon.service, names[k])[1]
              IN Line("Taxon is not accepted",
                      {<<names[k], first.status, first.valid_name, first.url>>})]

\* C10 (as claimed): of the names in answered batches, those whose first
\* candidate is not accepted are warned about with its valid name and url,
\* and all those with no candidate are listed in exactly one finding.
C10_EveryNotFoundNameReported ==
    Returned
        => LET missing == NotFoundNames
               lines == NotFoundLines
           IN /\ NotAcceptedWarned
              /\ missing # <<>>
                    => /\ Len(lines) = 1
                       /\ Values(lines[1].data) = Values(missing)

\* C10 (amended): every answered name with no candidate is recorded as not
\* found, and the single not-found finding lists the first 10 of them in the
\* order submitted (there is no such finding when there is none); the
\* not-accepted names are warned about as claimed.
C10_FirstTenNotFoundReported ==
    Returned
        => LET missing == NotFoundNames
           IN /\ NotAcceptedWarned
              /\ taxon.unmatched_taxa = missing
              /\ NotFoundLines =
                    IF missing = <<>> THEN <<>>
                    ELSE <<Line("Taxa not found in WoRMS",
                                SubSeq(missing, 1, Min(report_limit, Len(missing))))>>

C10_Witness ==
    /\ Returned
    /\ taxon.calls = 1
    /\ Len(taxon.requests) = 2
    /\ \A k \in 1..2 : taxon.requests[k].outcome = "answered"
    /\ Len(NotFoundNames) > report_limit
    /\ NotAcceptedLines # <<>>
    /\ Len(NotFoundLines) = 1
    /\ Len(NotFoundLines[1].data) = report_limit

=============================================================================
